---- MODULE Spec2Model ----
(***************************************************************************)
(* AttendoBot: the /hadir attendance flow (app.py), the Google Form        *)
(* handler and the configuration commands (utils/GoogleForm.py) and the    *)
(* storage handler (utils/database.py), over one guild.                    *)
(*                                                                         *)
(* Optional (nullable) values are sequences: <<>> is None, <<v>> is v.     *)
(* Instants are seconds since a Monday 00:00:00 UTC.                       *)
(*                                                                         *)
(* app.py calls db.check_attendance and form_handler.extract_urls, and     *)
(* GoogleForm.py calls the storage handler with an entry_id_name; the      *)
(* storage handler of the repository names the duplicate check check_hadir *)
(* and stores form_url alone.  check_attendance is modelled by check_hadir *)
(* (database.py 139-152), the handler calls by the methods of the same     *)
(* purpose in GoogleForm.py, and the entry_id_name column from the callers.*)
(***************************************************************************)
EXTENDS Integers, Sequences, FiniteSets, TLC

\* ------------------------------------------------------------------ bounds
MaxLen == 3        \* elements of a list or map of a parsed page
NumReq == 2        \* /hadir requests in progress at once
MaxFaults == 1     \* storage calls that raise inside the storage handler

\* GOOGLEFORM_MAX_CONCURRENCY, the capacity of one handler's semaphore
max_conc == 1

Reqs == 1..NumReq
Users == {1}
None == <<>>
Some(v) == <<v>>
IsNone(o) == o = <<>>
Val(o) == o[1]

\* ------------------------------------------------------------- datetime
SecondsPerHour == 60 * 60
SecondsPerDay == 24 * SecondsPerHour

\* the instant of weekday d (Monday = 1) of the second week, h:m:s UTC
At(d, h, m, s) == (7 + d - 1) * SecondsPerDay + h * SecondsPerHour + m * 60 + s

\* datetime.astimezone(timezone(timedelta(hours = off))): the local wall clock
astimezone(t, off) == t + off * SecondsPerHour

\* datetime.isoweekday(): Monday = 1 .. Sunday = 7
isoweekday(local) == ((local \div SecondsPerDay) % 7) + 1

\* datetime.time(): <<hour, minute, second>> of the wall clock
time_of(local) ==
    LET sod == local % SecondsPerDay
    IN  << sod \div SecondsPerHour, (sod % SecondsPerHour) \div 60, sod % 60 >>

\* time.replace(hour=h, minute=m, second=0, microsecond=0)
time_replace(h, m) == << h, m, 0 >>

\* datetime.time ordering: lexicographic on hour, minute, second
time_le(a, b) ==
    \/ a[1] < b[1]
    \/ a[1] = b[1] /\ a[2] < b[2]
    \/ a[1] = b[1] /\ a[2] = b[2] /\ a[3] <= b[3]

\* datetime.now(timezone.utc).date() and fromisoformat(timestamp).date()
utc_date(t) == t \div SecondsPerDay

\* ------------------------------------------------------------------ URLs
\* A URL is [prefix, token, tail]: prefix "gle" is https://forms.gle/,
\* "docs" is https://docs.google.com/forms/, "other" anything else; token is
\* the <token> of a /d/e/<token> segment (None when the URL has none).
Url(prefix, token, tail) == [prefix |-> prefix, token |-> token, tail |-> tail]
ShortLink == Url("gle", None, "/abc")
LostLink == Url("gle", None, "/gone")
LongLink(t) == Url("docs", Some(t), "/viewform")
RawUrls == {ShortLink, LostLink, LongLink("T1"), LongLink("T2"),
            Url("docs", Some("T1"), ""), Url("docs", None, "/u/0"),
            Url("other", Some("T1"), "/viewform")}
\* where a short link redirects to: str(response.url) of extract_url line 46
RedirectTarget(u) == IF u = ShortLink THEN LongLink("T1") ELSE Url("docs", None, "/u/0")

\* url.startswith(("https://docs.google.com/forms/", "https://forms.gle/"))
looks_like_gform(u) == u.prefix \in {"docs", "gle"}

\* a canonical base that keeps what follows the token
MutBase_KeepTail(u) ==
    IF IsNone(u.token) THEN None ELSE Some(Url("docs", u.token, u.tail))

\* re.search(r'/d/e/([a-zA-Z0-9_-]+)(?:/|$)') and the canonical base
canonical_base(u) ==
    IF IsNone(u.token) THEN None ELSE Some(Url("docs", u.token, ""))

\* a response check that takes every status but 200 for a private form
MutCheckGform_AllPrivate(status) == IF status # 200 THEN "Private" ELSE ""

\* _check_gform_response: "" when the response is OK
check_gform_response(status) ==
    IF status = 404 THEN "NotFound"
    ELSE IF status # 200 THEN "Private"
    ELSE ""

\* ------------------------------------------------------------- form data
\* Parsed FB_PUBLIC_LOAD_DATA_: a node is [t |-> "list", v |-> <<nodes>>],
\* [t |-> "dict", v |-> <<values in insertion order>>], [t |-> "null"] or
\* [t |-> "num", n |-> integer].
JNull == [t |-> "null"]
JNum(n) == [t |-> "num", n |-> n]
JList(s) == [t |-> "list", v |-> s]
JDict(s) == [t |-> "dict", v |-> s]
Leaf(id) == JList(<< JNum(id), JNull, JNum(0) >>)

RECURSIVE get_entry_ids(_)
RECURSIVE entry_ids_of_items(_)
entry_ids_of_items(items) ==
    IF items = << >> THEN << >>
    ELSE get_entry_ids(Head(items)) \o entry_ids_of_items(Tail(items))

\* a get_entry_ids that takes every list of three elements for a field
MutEntryIds_AnyTriple(data) ==
    IF data.t = "dict" THEN entry_ids_of_items(data.v)
    ELSE IF data.t = "list"
         THEN IF Len(data.v) = 3 THEN << data.v[1] >>
              ELSE entry_ids_of_items(data.v)
         ELSE << >>

\* get_entry_ids lines 115-123: the identifiers in the order they are yielded
get_entry_ids(data) ==
    IF data.t = "dict" THEN entry_ids_of_items(data.v)
    ELSE IF data.t = "list"
         THEN IF Len(data.v) = 3 /\ data.v[2].t = "null"
              THEN << data.v[1] >>
              ELSE entry_ids_of_items(data.v)
         ELSE << >>

\* the form pages the service can serve
FormOne == JList(<< JNull, JList(<< JNum(5), JDict(<< Leaf(11) >>) >>) >>)
FormNoField == JList(<< JNum(5), JList(<< JNum(1), JNum(2) >>) >>)
FormEmpty == JDict(<< >>)
Blobs == {FormOne, FormNoField, FormEmpty}

\* parsed pages of every shape: lists of scalars, and lists and maps of
\* fields, scalars, lists and maps
SeqsUpTo(S, n) == UNION {[1..k -> S] : k \in 0..n}
Scalars == {JNull, JNum(1), JNum(2)}
Parts ==
    {Leaf(11), Leaf(22), JList(<< JNum(1), JNum(2) >>), JDict(<< Leaf(33) >>),
     JNum(5), JNull, JList(<< >>)}
Pages ==
    {JList(v) : v \in SeqsUpTo(Scalars, MaxLen)}
        \cup {JList(v) : v \in SeqsUpTo(Parts, MaxLen)}
        \cup {JDict(v) : v \in SeqsUpTo(Parts, MaxLen)}

\* Python truthiness of parsed data: an empty dict or list is falsy
truthy(data) == ~(data.t \in {"dict", "list"} /\ data.v = << >>)

\* ---------------------------------------------------------- HTTP outcomes
\* a response is [kind |-> "status", code, body] or [kind |-> "error", err]
\* (err an httpx.RequestError: ConnectError, ReadTimeout)
Status(code, body) == [kind |-> "status", code |-> code, body |-> body, err |-> ""]
NetError(e) == [kind |-> "error", code |-> 0, body |-> None, err |-> e]
NetErrors == {NetError("ConnectError"), NetError("ReadTimeout")}
\* body None: the page holds no FB_PUBLIC_LOAD_DATA_ assignment
ViewResponses ==
    {Status(200, Some(b)) : b \in Blobs} \cup {Status(200, None), Status(404, None),
     Status(403, None)} \cup NetErrors
PostResponses ==
    {Status(c, None) : c \in {200, 302, 400, 404, 500}} \cup NetErrors
ResolveResponses == {Status(c, None) : c \in {200, 404, 403}} \cup NetErrors

\* a submit_response that takes 200 alone as success
MutSubmit_Only200(r) == r.kind = "status" /\ r.code = 200

\* submit_response lines 76-82: the value returned for a response of the POST
submit_response(r) ==
    IF r.kind = "error" THEN FALSE          \* except httpx.RequestError
    ELSE r.code = 200 \/ r.code = 302

\* fetch_form_data: the data it returns (None with an error message)
fetch_form_data(r) ==
    IF r.kind = "error" THEN None           \* except Exception
    ELSE IF check_gform_response(r.code) # "" THEN None
    ELSE r.body                             \* no marker match: None

\* list(get_entry_ids(form_data)) as hadir calls it
entry_ids_of(form_data) ==
    IF IsNone(form_data) THEN << >> ELSE get_entry_ids(Val(form_data))

\* --------------------------------------------------------------- storage
\* guilds row (schemas/models.py Guild): every column but the key nullable
EmptyRow ==
    [form_url |-> None, entry_id_name |-> None, day |-> None, start_hour |-> None,
     start_minute |-> None, end_hour |-> None, end_minute |-> None]

VARIABLES
    guilds,        \* table guilds, the row of the guild: None or Some(row)
    timezones,     \* table Timezone, the row of the guild: None or Some(time_delta)
    attendances,   \* table attendances: user -> None or Some([timestamp, form_url])
    now,           \* the clock (UTC)
    faults,        \* storage calls that have raised so far
    lock,          \* Attendance._lock: 0 when free, else the request holding it
    sem_app,       \* free slots of form_handler._semaphore (app.py)
    sem_mgr,       \* free slots of GoogleFormManager.form_url_handler._semaphore
    req,           \* the /hadir requests: position, locals and outcome of each
    cfg,           \* the /add_gform_url command: position, locals and report
    extraction     \* hadir lines 100-101 on one parsed page: form_data, the
                   \* entry_ids extracted from it and the field submitted into

vars == << guilds, timezones, attendances, now, faults, lock, sem_app, sem_mgr,
           req, cfg, extraction >>

\* a storage call either answers or raises inside the handler's try block
Oks == IF faults < MaxFaults THEN {TRUE, FALSE} ELSE {TRUE}
Charge(ok) == faults' = IF ok THEN faults ELSE faults + 1

\* a read that answers a placeholder endpoint for a guild that has none
MutGetFormUrl_Placeholder(ok) ==
    IF ok /\ ~IsNone(guilds) /\ ~IsNone(Val(guilds).form_url)
    THEN Val(guilds).form_url ELSE Some(Url("docs", Some("T1"), ""))

\* get_guild_form_url: the column, None without a row or on an exception
get_guild_form_url(ok) ==
    IF ok /\ ~IsNone(guilds) THEN Val(guilds).form_url ELSE None

\* upsert_guild_form_url(guild_id, url, entry_id_name): one upsert of the row
upsert_guild_form_url(url, entry) ==
    LET row == IF IsNone(guilds) THEN EmptyRow ELSE Val(guilds)
    IN  Some([row EXCEPT !.form_url = Some(url), !.entry_id_name = Some(entry)])

\* delete_guild_form_url_and_entry_id_name: one update of the row
delete_guild_form_url ==
    IF IsNone(guilds) THEN guilds
    ELSE Some([Val(guilds) EXCEPT !.form_url = None, !.entry_id_name = None])

\* get_attendance: the row matching guild_id, user_id AND form_url
get_attendance(user, form_url, ok) ==
    IF ok /\ ~IsNone(attendances[user])
          /\ Val(attendances[user]).form_url = form_url
    THEN attendances[user] ELSE None

\* insert_attendance: upsert on the key (guild_id, user_id)
insert_attendance(user, form_url) ==
    [attendances EXCEPT ![user] = Some([timestamp |-> now, form_url |-> form_url])]

\* update_attendance: update of the row of (guild_id, user_id), if any
update_attendance(user, form_url) ==
    IF IsNone(attendances[user]) THEN attendances
    ELSE [attendances EXCEPT ![user] = Some([timestamp |-> now, form_url |-> form_url])]

\* a duplicate check that never re-marks a record of an earlier day
MutCheck_NeverUpdate(existing, today) ==
    IF ~IsNone(existing) THEN "marked" ELSE "insert"

\* check_hadir, after get_attendance: what it does with the row it read
check_hadir_decision(existing, today) ==
    IF ~IsNone(existing)
    THEN IF utc_date(Val(existing).timestamp) # today THEN "update" ELSE "marked"
    ELSE "insert"

\* an upsert that replaces the whole row by the window
MutUpsertWindow_FreshRow(day, h1, m1, h2, m2) ==
    Some([EmptyRow EXCEPT !.day = Some(day), !.start_hour = Some(h1),
                          !.start_minute = Some(m1), !.end_hour = Some(h2),
                          !.end_minute = Some(m2)])

\* upsert_attendance_window: one upsert of the five columns
upsert_attendance_window(day, h1, m1, h2, m2) ==
    LET row == IF IsNone(guilds) THEN EmptyRow ELSE Val(guilds)
    IN  Some([row EXCEPT !.day = Some(day), !.start_hour = Some(h1),
                         !.start_minute = Some(m1), !.end_hour = Some(h2),
                         !.end_minute = Some(m2)])

\* get_attendance_window: the five columns of the row
get_attendance_window(ok) ==
    IF ok /\ ~IsNone(guilds)
    THEN Some([day |-> Val(guilds).day, start_hour |-> Val(guilds).start_hour,
               start_minute |-> Val(guilds).start_minute,
               end_hour |-> Val(guilds).end_hour,
               end_minute |-> Val(guilds).end_minute])
    ELSE None

\* a delete that clears the day alone
MutDeleteWindow_DayOnly ==
    IF IsNone(guilds) THEN guilds ELSE Some([Val(guilds) EXCEPT !.day = None])

\* delete_attendance_window: one update setting the five columns to NULL
delete_attendance_window ==
    IF IsNone(guilds) THEN guilds
    ELSE Some([Val(guilds) EXCEPT !.day = None, !.start_hour = None,
                                  !.start_minute = None, !.end_hour = None,
                                  !.end_minute = None])

\* get_timezone: the row {"time_delta": n}, None without a row or on an exception
get_timezone(ok) == IF ok THEN timezones ELSE None

\* upsert_timezone: the row references guilds.guild_id (ForeignKey), so the
\* upsert raises, and returns False, when the guild has no row
upsert_timezone_ok(ok) == ok /\ ~IsNone(guilds)

\* offset_int of upsert_timezone(guild_id) when the caller passes none
default_offset == 7

\* ------------------------------------------------------ the window gate
\* a gate whose end bound is exclusive
MutGate_ExclusiveEnd(record, tz, t) ==
    IF IsNone(record) \/ IsNone(Val(record).day) THEN "pass"
    ELSE IF IsNone(tz) THEN "raise"
    ELSE LET w == Val(record)
             local == astimezone(t, Val(tz))
             cur == time_of(local)
             start == time_replace(Val(w.start_hour), Val(w.start_minute))
             end == time_replace(Val(w.end_hour), Val(w.end_minute))
         IN  IF isoweekday(local) # Val(w.day)
                \/ ~(time_le(start, cur) /\ time_le(cur, end) /\ cur # end)
             THEN "deny" ELSE "pass"

\* a gate that is closed when no window is configured
MutGate_ClosedWhenUnset(record, tz, t) ==
    IF IsNone(record) \/ IsNone(Val(record).day) THEN "deny" ELSE "pass"

\* hadir, lines 69-85: "pass", "deny", or "raise" (tz is None, or a column
\* of the window is None: the exception is raised outside the try block)
window_gate(record, tz, t) ==
    IF IsNone(record) \/ IsNone(Val(record).day) THEN "pass"
    ELSE IF IsNone(tz) THEN "raise"
    ELSE LET w == Val(record)
         IN  IF \E f \in {w.start_hour, w.start_minute, w.end_hour, w.end_minute} :
                    IsNone(f)
             THEN "raise"
             ELSE LET local == astimezone(t, Val(tz))
                      cur == time_of(local)
                      start == time_replace(Val(w.start_hour), Val(w.start_minute))
                      end == time_replace(Val(w.end_hour), Val(w.end_minute))
                  IN  IF isoweekday(local) # Val(w.day)
                         \/ ~(time_le(start, cur) /\ time_le(cur, end))
                      THEN "deny" ELSE "pass"

\* ---------------------------------------------------------------- state
\* a /hadir request before it starts.  day is the UTC date it was issued on,
\* gate what the time gate found ("unset": no window, "inside"), wrote tells
\* that it has changed the user's attendance record, resp is the answer to
\* its POST.
IdleReq ==
    [pc |-> "idle", user |-> 0, day |-> 0, form_url |-> None, tz |-> None,
     gate |-> "", mode |-> "", wrote |-> FALSE, resp |-> None,
     submit_success |-> FALSE, outcome |-> ""]

\* the /add_gform_url command before it starts.  url is the argument of
\* extract_url and resp the answer to its GET, kept until fetch_form_data is
\* called; persisted tells that one of its storage writes has succeeded.
IdleCfg ==
    [pc |-> "idle", url |-> None, resp |-> None, extracted |-> None, entry |-> 0,
     success |-> FALSE, msg |-> "", persisted |-> FALSE]

\* the extraction of field identifiers from a parsed page, before it runs
Extraction(data) ==
    [form_data |-> data, entry_ids |-> None, field |-> None, raised |-> FALSE]
NoExtraction == Extraction(JNull)

\* the instants the clock passes through
FirstInstant == At(4, 23, 30, 0)      \* Thursday 23:30 UTC = Friday 06:30 at UTC+7
Instants ==
    {FirstInstant,
     At(5, 1, 30, 0)}                 \* Friday 01:30 UTC = Friday 08:30 at UTC+7

Init ==
    /\ guilds = None
    /\ timezones = None
    /\ attendances = [u \in Users |-> None]
    /\ now = FirstInstant
    /\ faults = 0
    /\ lock = 0
    /\ sem_app = max_conc
    /\ sem_mgr = max_conc
    /\ req = [p \in Reqs |-> IdleReq]
    /\ cfg = IdleCfg
    /\ extraction = NoExtraction

\* the fixed outcome categories of a request; "Raised" is an exception that
\* leaves the handler
Categories ==
    {"Recorded", "DeniedOutsideWindow", "DeniedAlreadyMarked", "DeniedNotConfigured",
     "FailedUpstream", "FailedInternal"}

\* a request that has returned keeps its outcome and what it did
Returned(r, outcome) ==
    [IdleReq EXCEPT !.pc = "done", !.user = r.user, !.day = r.day, !.wrote = r.wrote,
                    !.resp = r.resp,
                    !.submit_success = r.submit_success, !.outcome = outcome]

\* ----------------------------------------------------------------- hadir
\* line 60: form_url = db.get_guild_form_url(guild_id)
H_Start(p) ==
    /\ req[p].pc = "idle"
    /\ \E u \in Users, ok \in Oks :
         /\ Charge(ok)
         /\ req' = [req EXCEPT ![p] = [IdleReq EXCEPT !.pc = "tz", !.user = u,
                       !.day = utc_date(now), !.form_url = get_guild_form_url(ok)]]
    /\ UNCHANGED << extraction, guilds, timezones, attendances, now, lock, sem_app, sem_mgr,
                    cfg >>

\* lines 61-65: tz = db.get_timezone(guild_id); no form_url: not configured
H_GetTz(p) ==
    /\ req[p].pc = "tz"
    /\ \E ok \in Oks :
         /\ Charge(ok)
         /\ req' = [req EXCEPT ![p] =
                IF IsNone(req[p].form_url)
                THEN Returned(req[p], "DeniedNotConfigured")
                ELSE [@ EXCEPT !.pc = "win", !.tz = get_timezone(ok)]]
    /\ UNCHANGED << extraction, guilds, timezones, attendances, now, lock, sem_app, sem_mgr,
                    cfg >>

\* lines 68-85: the window read and the time gate
H_Window(p) ==
    /\ req[p].pc = "win"
    /\ \E ok \in Oks :
         LET record == get_attendance_window(ok)
             g == window_gate(record, req[p].tz, now)
             unset == IsNone(record) \/ IsNone(Val(record).day)
         IN  /\ Charge(ok)
             /\ req' = [req EXCEPT ![p] =
                    IF g = "pass"
                    THEN [@ EXCEPT !.pc = "chk", !.tz = None,
                                   !.gate = IF unset THEN "unset" ELSE "inside"]
                    ELSE IF g = "deny" THEN Returned(req[p], "DeniedOutsideWindow")
                    ELSE Returned(req[p], "Raised")]
    /\ UNCHANGED << extraction, guilds, timezones, attendances, now, lock, sem_app, sem_mgr,
                    cfg >>

\* lines 89-93 and check_hadir lines 141-148: the read of the record and the
\* comparison of its date with today's
H_CheckRead(p) ==
    /\ req[p].pc = "chk"
    /\ \E ok \in Oks :
         LET existing == get_attendance(req[p].user, Val(req[p].form_url), ok)
             d == check_hadir_decision(existing, utc_date(now))
         IN  /\ Charge(ok)
             /\ req' = [req EXCEPT ![p] =
                    IF d = "marked" THEN Returned(req[p], "DeniedAlreadyMarked")
                    ELSE [@ EXCEPT !.pc = "chkw", !.mode = d, !.gate = ""]]
    /\ UNCHANGED << extraction, guilds, timezones, attendances, now, lock, sem_app, sem_mgr,
                    cfg >>

\* check_hadir lines 147 and 149: update_attendance / insert_attendance; a
\* write that raises makes check_hadir return False, which hadir answers as
\* already marked
H_CheckWrite(p) ==
    /\ req[p].pc = "chkw"
    /\ \E ok \in Oks :
         LET stored == ok /\ ~IsNone(guilds)   \* attendances references guilds
             written == IF ~stored THEN attendances
                        ELSE IF req[p].mode = "update"
                        THEN update_attendance(req[p].user, Val(req[p].form_url))
                        ELSE insert_attendance(req[p].user, Val(req[p].form_url))
         IN  /\ Charge(ok)
             /\ attendances' = written
             /\ req' = [req EXCEPT ![p] =
                    IF stored
                    THEN [@ EXCEPT !.pc = "lock", !.wrote = (written # attendances),
                                   !.mode = "",
                                   !.form_url = None]
                    ELSE Returned(req[p], "DeniedAlreadyMarked")]
    /\ UNCHANGED << extraction, guilds, timezones, now, lock, sem_app, sem_mgr, cfg >>

\* a lock that admits a request while another holds it
MutAcquire_NoWait(p) ==
    /\ req[p].pc = "lock"
    /\ lock' = p
    /\ req' = [req EXCEPT ![p] = [@ EXCEPT !.pc = "fetch"]]
    /\ UNCHANGED << extraction, guilds, timezones, attendances, now, faults, sem_app, sem_mgr,
                    cfg >>

\* line 97: async with self._lock
H_Acquire(p) ==
    /\ req[p].pc = "lock"
    /\ lock = 0
    /\ lock' = p
    /\ req' = [req EXCEPT ![p] = [@ EXCEPT !.pc = "fetch"]]
    /\ UNCHANGED << extraction, guilds, timezones, attendances, now, faults, sem_app, sem_mgr,
                    cfg >>

\* lines 98-99: extract_urls, then fetch_form_data enters the semaphore and
\* issues the GET of <base>/viewform
H_FetchBegin(p) ==
    /\ req[p].pc = "fetch"
    /\ sem_app > 0
    /\ sem_app' = sem_app - 1
    /\ req' = [req EXCEPT ![p] = [@ EXCEPT !.pc = "fetching"]]
    /\ UNCHANGED << extraction, guilds, timezones, attendances, now, faults, lock, sem_mgr,
                    cfg >>

\* a handler that keeps the lock when entry_ids[0] raises
MutFetchEnd_KeepsLock(p) ==
    /\ req[p].pc = "fetching"
    /\ \E r \in ViewResponses :
         LET ids == entry_ids_of(fetch_form_data(r))
         IN  req' = [req EXCEPT ![p] =
                    IF ids = << >> THEN Returned(req[p], "FailedInternal")
                    ELSE [@ EXCEPT !.pc = "post"]]
    /\ sem_app' = sem_app + 1
    /\ UNCHANGED << extraction, guilds, timezones, attendances, now, faults, lock, sem_mgr, cfg >>

\* lines 99-101: the GET answers; entry_ids[0] of an empty list raises
\* IndexError, caught at line 114, and the lock is released
H_FetchEnd(p) ==
    /\ req[p].pc = "fetching"
    /\ \E r \in ViewResponses :
         LET ids == entry_ids_of(fetch_form_data(r))
         IN  /\ req' = [req EXCEPT ![p] =
                    IF ids = << >> THEN Returned(req[p], "FailedInternal")
                    ELSE [@ EXCEPT !.pc = "post"]]
             /\ lock' = IF ids = << >> THEN 0 ELSE lock
    /\ sem_app' = sem_app + 1
    /\ UNCHANGED << extraction, guilds, timezones, attendances, now, faults, sem_mgr, cfg >>

\* line 102 and submit_response lines 76-78: the POST of <base>/formResponse
H_PostBegin(p) ==
    /\ req[p].pc = "post"
    /\ sem_app > 0
    /\ sem_app' = sem_app - 1
    /\ req' = [req EXCEPT ![p] = [@ EXCEPT !.pc = "posting"]]
    /\ UNCHANGED << extraction, guilds, timezones, attendances, now, faults, lock, sem_mgr, cfg >>

\* a handler that posts again when the POST has failed
MutPostEnd_Retry(p) ==
    /\ req[p].pc = "posting"
    /\ \E r \in PostResponses :
         /\ req' = [req EXCEPT ![p] =
                    IF submit_response(r)
                    THEN Returned([req[p] EXCEPT !.submit_success = TRUE,
                                                 !.resp = Some(r)], "Recorded")
                    ELSE [@ EXCEPT !.pc = "post"]]
         /\ lock' = IF submit_response(r) THEN 0 ELSE lock
    /\ sem_app' = sem_app + 1
    /\ UNCHANGED << extraction, guilds, timezones, attendances, now, faults, sem_mgr, cfg >>

\* lines 102-113: the POST answers, the lock is released on return
H_PostEnd(p) ==
    /\ req[p].pc = "posting"
    /\ \E r \in PostResponses :
         req' = [req EXCEPT ![p] =
                    IF submit_response(r)
                    THEN Returned([req[p] EXCEPT !.submit_success = TRUE,
                                                 !.resp = Some(r)], "Recorded")
                    ELSE Returned([req[p] EXCEPT !.resp = Some(r)], "FailedUpstream")]
    /\ sem_app' = sem_app + 1
    /\ lock' = 0
    /\ UNCHANGED << extraction, guilds, timezones, attendances, now, faults, sem_mgr, cfg >>

\* the handler has returned; the slot serves the next request
H_Finish(p) ==
    /\ req[p].pc = "done"
    /\ req' = [req EXCEPT ![p] = IdleReq]
    /\ UNCHANGED << extraction, guilds, timezones, attendances, now, faults, lock, sem_app,
                    sem_mgr, cfg >>

\* --------------------------------------------------------- add_gform_url
\* extract_url lines 48-54 on a URL that needs no expansion
A_Extracted(u) ==
    LET base == canonical_base(u)
    IN  IF IsNone(base)
        THEN [IdleCfg EXCEPT !.pc = "done", !.msg = "MalformedUrl"]
        ELSE [IdleCfg EXCEPT !.pc = "fetch", !.extracted = base]

\* extract_url has returned: its argument and the answer to its GET
A_Called(c, u, resp) == [c EXCEPT !.url = Some(u), !.resp = resp]

\* lines 151-158: the prefix check, and extract_url up to its first await
A_Start ==
    /\ cfg.pc \in {"idle", "done"}
    /\ \E u \in RawUrls :
         cfg' = IF ~looks_like_gform(u)
                THEN [IdleCfg EXCEPT !.pc = "done", !.msg = "NotGoogle"]
                ELSE IF u.prefix = "gle"
                     THEN [IdleCfg EXCEPT !.pc = "resolve", !.url = Some(u)]
                     ELSE A_Called(A_Extracted(u), u, None)
    /\ UNCHANGED << extraction, guilds, timezones, attendances, now, faults, lock, sem_app,
                    sem_mgr, req >>

\* extract_url lines 41-42: the GET of the short link enters the semaphore
A_ResolveBegin ==
    /\ cfg.pc = "resolve"
    /\ sem_mgr > 0
    /\ sem_mgr' = sem_mgr - 1
    /\ cfg' = [cfg EXCEPT !.pc = "resolving"]
    /\ UNCHANGED << extraction, guilds, timezones, attendances, now, faults, lock, sem_app,
                    req >>

\* extract_url lines 43-57: the GET answers
A_ResolveEnd ==
    /\ cfg.pc = "resolving"
    /\ sem_mgr' = sem_mgr + 1
    /\ \E r \in ResolveResponses :
         cfg' = IF r.kind = "error"
                THEN [cfg EXCEPT !.pc = "done", !.msg = "Unexpected", !.resp = Some(r)]
                ELSE IF check_gform_response(r.code) # ""
                     THEN [cfg EXCEPT !.pc = "done", !.resp = Some(r),
                                      !.msg = check_gform_response(r.code)]
                     ELSE A_Called(A_Extracted(RedirectTarget(Val(cfg.url))),
                                   Val(cfg.url), Some(r))
    /\ UNCHANGED << extraction, guilds, timezones, attendances, now, faults, lock, sem_app,
                    req >>

\* fetch_form_data lines 89-91: the GET of <base>/viewform enters the semaphore
A_FetchBegin ==
    /\ cfg.pc = "fetch"
    /\ sem_mgr > 0
    /\ sem_mgr' = sem_mgr - 1
    /\ cfg' = [cfg EXCEPT !.pc = "fetching", !.url = None, !.resp = None]
    /\ UNCHANGED << extraction, guilds, timezones, attendances, now, faults, lock, sem_app,
                    req >>

\* lines 160-166: the GET answers; falsy data is reported, entry_ids[0] of an
\* empty list raises IndexError out of the command
A_FetchEnd ==
    /\ cfg.pc = "fetching"
    /\ sem_mgr' = sem_mgr + 1
    /\ \E r \in ViewResponses :
         LET data == fetch_form_data(r)
         IN  cfg' = IF IsNone(data) \/ ~truthy(Val(data))
                    THEN [cfg EXCEPT !.pc = "done", !.msg = "NoFormData"]
                    ELSE IF get_entry_ids(Val(data)) = << >>
                         THEN [cfg EXCEPT !.pc = "done", !.msg = "Raised"]
                         ELSE [cfg EXCEPT !.pc = "save",
                                          !.entry = get_entry_ids(Val(data))[1].n]
    /\ UNCHANGED << extraction, guilds, timezones, attendances, now, faults, lock, sem_app,
                    req >>

\* line 171: success = db.upsert_guild_form_url(guild, extracted_url, entry_id_name)
A_SaveForm ==
    /\ cfg.pc = "save"
    /\ \E ok \in Oks :
         /\ Charge(ok)
         /\ guilds' = IF ok THEN upsert_guild_form_url(Val(cfg.extracted), cfg.entry)
                      ELSE guilds
         /\ cfg' = [cfg EXCEPT !.pc = "savetz", !.success = ok, !.extracted = None,
                               !.entry = 0,
                               !.persisted = cfg.persisted \/ ok]
    /\ UNCHANGED << extraction, timezones, attendances, now, lock, sem_app, sem_mgr, req >>

\* lines 172-176: tz = db.upsert_timezone(guild) and the report
add_gform_url_report(success, tz) == IF success /\ tz THEN "Saved" ELSE "Failed"

A_SaveTz ==
    /\ cfg.pc = "savetz"
    /\ \E ok \in Oks :
         LET tz == upsert_timezone_ok(ok)
         IN  /\ Charge(ok)
             /\ timezones' = IF tz THEN Some(default_offset) ELSE timezones
             /\ cfg' = [cfg EXCEPT !.pc = "done",
                                   !.msg = add_gform_url_report(cfg.success, tz),
                                   !.persisted = cfg.persisted \/ tz]
    /\ UNCHANGED << extraction, guilds, attendances, now, lock, sem_app, sem_mgr, req >>

\* ------------------------------------------------- the other commands
\* delete_gform_url lines 190-201
DeleteGformUrl ==
    /\ \E ok1 \in Oks :
         LET form_url == get_guild_form_url(ok1)
         IN  IF IsNone(form_url)
             THEN Charge(ok1) /\ UNCHANGED guilds
             ELSE \E ok2 \in Oks :
                    /\ Charge(ok2)
                    /\ guilds' = IF ok2 THEN delete_guild_form_url ELSE guilds
    /\ UNCHANGED << extraction, timezones, attendances, now, lock, sem_app, sem_mgr, req, cfg >>

\* set_attendance_time: a schedule that matched the pattern is
\* [digit, name, h1, m1, h2, m2]: day_raw is one digit (name = "") or letters
Sched(digit, name, h1, m1, h2, m2) ==
    [digit |-> digit, name |-> name, h1 |-> h1, m1 |-> m1, h2 |-> h2, m2 |-> m2]
Schedules ==
    {Sched(5, "", 8, 0, 9, 0), Sched(0, "saturday", 8, 0, 9, 0),
     Sched(8, "", 8, 0, 9, 0), Sched(0, "", 8, 0, 9, 0), Sched(0, "funday", 8, 0, 9, 0),
     Sched(5, "", 9, 0, 9, 0), Sched(5, "", 9, 0, 8, 0), Sched(5, "", 24, 0, 25, 0),
     Sched(5, "", 8, 60, 9, 0)}

\* the weekdays dictionary, lines 268-271 (0: KeyError)
weekdays(name) ==
    CASE name = "monday" -> 1 [] name = "tuesday" -> 2 [] name = "wednesday" -> 3
      [] name = "thursday" -> 4 [] name = "friday" -> 5 [] name = "saturday" -> 6
      [] name = "sunday" -> 7 [] OTHER -> 0

\* a validation that lets start = end through
MutValidate_AllowEqual(s) ==
    IF ~(0 <= s.h1 /\ s.h1 < 24 /\ 0 <= s.m1 /\ s.m1 < 60
         /\ 0 <= s.h2 /\ s.h2 < 24 /\ 0 <= s.m2 /\ s.m2 < 60)
    THEN None
    ELSE IF ~(s.h1 < s.h2 \/ (s.h1 = s.h2 /\ s.m1 <= s.m2))
    THEN None
    ELSE LET day == IF s.name = "" THEN s.digit ELSE weekdays(s.name)
         IN  IF ~(1 <= day /\ day <= 7) THEN None
             ELSE Some(<< day, s.h1, s.m1, s.h2, s.m2 >>)

\* lines 256-283: the window the command stores, None when it rejects
validate_schedule(s) ==
    IF ~(0 <= s.h1 /\ s.h1 < 24 /\ 0 <= s.m1 /\ s.m1 < 60
         /\ 0 <= s.h2 /\ s.h2 < 24 /\ 0 <= s.m2 /\ s.m2 < 60)
    THEN None
    ELSE IF ~(s.h1 < s.h2 \/ (s.h1 = s.h2 /\ s.m1 < s.m2))     \* start >= end
    THEN None
    ELSE LET day == IF s.name = "" THEN s.digit ELSE weekdays(s.name)
         IN  IF s.name # "" /\ weekdays(s.name) = 0 THEN None  \* KeyError
             ELSE IF ~(1 <= day /\ day <= 7) THEN None
             ELSE Some(<< day, s.h1, s.m1, s.h2, s.m2 >>)

\* set_attendance_time lines 225-309
SetAttendanceTime ==
    /\ \E s \in Schedules, ok \in Oks :
         LET w == validate_schedule(s)
         IN  IF IsNone(w)
             THEN UNCHANGED << guilds, faults >>
             ELSE /\ Charge(ok)
                  /\ guilds' = IF ok
                               THEN upsert_attendance_window(Val(w)[1], Val(w)[2],
                                        Val(w)[3], Val(w)[4], Val(w)[5])
                               ELSE guilds
    /\ UNCHANGED << extraction, timezones, attendances, now, lock, sem_app, sem_mgr, req, cfg >>

\* delete_attendance_time lines 355-366
DeleteAttendanceTime ==
    /\ \E ok1 \in Oks :
         IF IsNone(get_attendance_window(ok1))
         THEN Charge(ok1) /\ UNCHANGED guilds
         ELSE \E ok2 \in Oks :
                /\ Charge(ok2)
                /\ guilds' = IF ok2 THEN delete_attendance_window ELSE guilds
    /\ UNCHANGED << extraction, timezones, attendances, now, lock, sem_app, sem_mgr, req, cfg >>

\* set_timezone: the offset typed, None when int() raises ValueError
TzInputs == {Some(0 - 13), Some(0 - 5), Some(7), Some(15), None}

\* a validation that lets +15 through
MutOffset_UpTo15(o) ==
    IF IsNone(o) THEN None
    ELSE IF ~(0 - 12 <= Val(o) /\ Val(o) <= 15) THEN None
    ELSE o

\* lines 380-389: the offset the command stores, None when it rejects
validate_offset(o) ==
    IF IsNone(o) THEN None
    ELSE IF ~(0 - 12 <= Val(o) /\ Val(o) <= 14) THEN None
    ELSE o

\* set_timezone lines 370-398
SetTimezone ==
    /\ \E o \in TzInputs, ok \in Oks :
         LET off == validate_offset(o)
         IN  IF IsNone(off)
             THEN UNCHANGED << timezones, faults >>
             ELSE /\ Charge(ok)
                  /\ timezones' = IF upsert_timezone_ok(ok) THEN off ELSE timezones
    /\ UNCHANGED << extraction, guilds, attendances, now, lock, sem_app, sem_mgr, req, cfg >>

\* time passes
Tick ==
    /\ \E t \in Instants : t > now /\ now' = t
    /\ UNCHANGED << extraction, guilds, timezones, attendances, faults, lock, sem_app, sem_mgr,
                    req, cfg >>

\* hadir lines 100-101: entry_ids = list(get_entry_ids(form_data)) and the key
\* of submission_data, entry_ids[0] (IndexError on an empty list)
ExtractEntryIds ==
    /\ IsNone(extraction.entry_ids)
    /\ LET entry_ids == get_entry_ids(extraction.form_data)
       IN  extraction' =
               [extraction EXCEPT !.entry_ids = Some(entry_ids),
                                  !.field = IF entry_ids = << >> THEN None
                                            ELSE Some(entry_ids[1]),
                                  !.raised = (entry_ids = << >>)]
    /\ UNCHANGED << guilds, timezones, attendances, now, faults, lock, sem_app,
                    sem_mgr, req, cfg >>

\* ---------------------------------------------------------- specification
\* Spec: the configuration commands, the clock, storage calls that raise, and
\* /hadir requests issued one after the other
Next ==
    \/ H_Start(1)
    \/ H_GetTz(1)
    \/ H_Window(1)
    \/ H_CheckRead(1)
    \/ H_CheckWrite(1)
    \/ H_Acquire(1)
    \/ H_FetchBegin(1)
    \/ H_FetchEnd(1)
    \/ H_PostBegin(1)
    \/ H_PostEnd(1)
    \/ H_Finish(1)
    \/ A_Start
    \/ A_ResolveBegin
    \/ A_ResolveEnd
    \/ A_FetchBegin
    \/ A_FetchEnd
    \/ A_SaveForm
    \/ A_SaveTz
    \/ DeleteGformUrl
    \/ SetAttendanceTime
    \/ DeleteAttendanceTime
    \/ SetTimezone
    \/ Tick

Spec == Init /\ [][Next]_vars

\* a guild configured by /add_gform_url, /set_attendance_time and /set_timezone
ConfiguredRow(w) ==
    IF IsNone(w)
    THEN [EmptyRow EXCEPT !.form_url = Some(Url("docs", Some("T1"), "")),
                          !.entry_id_name = Some(11)]
    ELSE [EmptyRow EXCEPT !.form_url = Some(Url("docs", Some("T1"), "")),
                          !.entry_id_name = Some(11),
                          !.day = Some(Val(w)[1]), !.start_hour = Some(Val(w)[2]),
                          !.start_minute = Some(Val(w)[3]), !.end_hour = Some(Val(w)[4]),
                          !.end_minute = Some(Val(w)[5])]

InitConfigured(w, off, t, f) ==
    /\ guilds = Some(ConfiguredRow(w))
    /\ timezones = Some(off)
    /\ attendances = [u \in Users |-> None]
    /\ now = t
    /\ faults = f
    /\ lock = 0
    /\ sem_app = max_conc
    /\ sem_mgr = max_conc
    /\ req = [p \in Reqs |-> IdleReq]
    /\ cfg = IdleCfg
    /\ extraction = NoExtraction

\* SpecRace: concurrent /hadir requests of a guild whose form link is set,
\* the clock and storage calls that raise
InitRace == InitConfigured(None, 7, FirstInstant, 0)

NextRace ==
    \/ \E p \in Reqs : H_Start(p)
    \/ \E p \in Reqs : H_GetTz(p)
    \/ \E p \in Reqs : H_Window(p)
    \/ \E p \in Reqs : H_CheckRead(p)
    \/ \E p \in Reqs : H_CheckWrite(p)
    \/ \E p \in Reqs : H_Acquire(p)
    \/ \E p \in Reqs : H_FetchBegin(p)
    \/ \E p \in Reqs : H_FetchEnd(p)
    \/ \E p \in Reqs : H_PostBegin(p)
    \/ \E p \in Reqs : H_PostEnd(p)
    \/ \E p \in Reqs : H_Finish(p)
    \/ Tick

SpecRace == InitRace /\ [][NextRace]_vars

\* SpecLive: concurrent /hadir requests of one day under the scheduling of the event
\* loop: a network call in progress completes, a request that can enter the
\* gate does, and asyncio.Lock wakes its waiters in turn, so a request that
\* waits for the lock while it is released again and again acquires it
Fairness ==
    \A p \in Reqs :
        /\ SF_vars(H_Acquire(p))
        /\ WF_vars(H_FetchBegin(p))
        /\ WF_vars(H_FetchEnd(p))
        /\ WF_vars(H_PostBegin(p))
        /\ WF_vars(H_PostEnd(p))

InitLive == InitConfigured(None, 7, FirstInstant, MaxFaults)

NextLive ==
    \/ \E p \in Reqs : H_Start(p)
    \/ \E p \in Reqs : H_GetTz(p)
    \/ \E p \in Reqs : H_Window(p)
    \/ \E p \in Reqs : H_CheckRead(p)
    \/ \E p \in Reqs : H_CheckWrite(p)
    \/ \E p \in Reqs : H_Acquire(p)
    \/ \E p \in Reqs : H_FetchBegin(p)
    \/ \E p \in Reqs : H_FetchEnd(p)
    \/ \E p \in Reqs : H_PostBegin(p)
    \/ \E p \in Reqs : H_PostEnd(p)
    \/ \E p \in Reqs : H_Finish(p)

SpecLive == InitLive /\ [][NextLive]_vars /\ Fairness

\* SpecGate: the /hadir requests of a guild whose form link is set and the
\* window commands, over offsets and instants around the windows' bounds, no
\* storage call raising
GateOffsets == {0 - 12, 0 - 5, 0, 7, 14}
GateWindows ==
    {None, Some(<< 5, 8, 0, 9, 0 >>), Some(<< 7, 0, 0, 23, 59 >>),
     Some(<< 1, 22, 30, 23, 15 >>)}
\* wall-clock readings <<weekday, hour, minute, second>>
Probes ==
    {<< 5, 7, 59, 0 >>, << 5, 7, 59, 59 >>, << 5, 8, 0, 0 >>, << 5, 8, 30, 0 >>,
     << 5, 9, 0, 0 >>, << 5, 9, 0, 30 >>, << 5, 9, 1, 0 >>, << 4, 8, 30, 0 >>,
     << 6, 8, 30, 0 >>, << 7, 0, 0, 0 >>, << 7, 23, 59, 0 >>, << 7, 23, 59, 1 >>,
     << 1, 0, 0, 0 >>, << 1, 22, 29, 0 >>, << 1, 22, 30, 0 >>, << 1, 23, 15, 0 >>,
     << 1, 23, 16, 0 >>}
\* the instants at which some offset of GateOffsets reads a probe
GateInstants ==
    {At(q[1], q[2], q[3], q[4]) - o * SecondsPerHour : q \in Probes, o \in GateOffsets}

InitGate ==
    \E w \in GateWindows, off \in GateOffsets, t \in GateInstants :
        InitConfigured(w, off, t, MaxFaults)

NextGate ==
    \/ H_Start(1)
    \/ H_GetTz(1)
    \/ H_Window(1)
    \/ H_CheckRead(1)
    \/ H_CheckWrite(1)
    \/ H_Acquire(1)
    \/ H_FetchBegin(1)
    \/ H_FetchEnd(1)
    \/ H_PostBegin(1)
    \/ H_PostEnd(1)
    \/ H_Finish(1)
    \/ SetAttendanceTime
    \/ DeleteAttendanceTime

SpecGate == InitGate /\ [][NextGate]_vars

\* SpecConfig: the configuration commands of the administrator, in any order
\* and with storage calls that raise
NextConfig ==
    \/ A_Start
    \/ A_ResolveBegin
    \/ A_ResolveEnd
    \/ A_FetchBegin
    \/ A_FetchEnd
    \/ A_SaveForm
    \/ A_SaveTz
    \/ DeleteGformUrl
    \/ SetAttendanceTime
    \/ DeleteAttendanceTime
    \/ SetTimezone

SpecConfig == Init /\ [][NextConfig]_vars

\* SpecExtract: the extraction of the field identifiers, over parsed pages
InitExtract ==
    /\ guilds = None
    /\ timezones = None
    /\ attendances = [u \in Users |-> None]
    /\ now = FirstInstant
    /\ faults = 0
    /\ lock = 0
    /\ sem_app = max_conc
    /\ sem_mgr = max_conc
    /\ req = [p \in Reqs |-> IdleReq]
    /\ cfg = IdleCfg
    /\ \E data \in Pages : extraction = Extraction(data)

NextExtract == ExtractEntryIds

SpecExtract == InitExtract /\ [][NextExtract]_vars

\* ================================================================ claims
\* requests whose POST has been issued
Posted(p) == req[p].pc = "posting" \/ (req[p].pc = "done" /\ ~IsNone(req[p].resp))

\* C1: of the requests one user issues on one calendar day, at most one is
\* admitted and submits to the form (stated for the runs in which no storage
\* call raises: the requests are told apart by the lock and the duplicate
\* check alone).
C1_AtMostOneAdmittedPerDay ==
    faults = 0 =>
        \A p, q \in Reqs :
            (p # q /\ req[p].user = req[q].user /\ req[p].day = req[q].day)
                => ~(Posted(p) /\ Posted(q))

\* C2: a request whose submission failed has left the user's attendance
\* record as it was.
C2_FailedSubmissionLeavesLedger ==
    \A p \in Reqs :
        (req[p].pc = "done" /\ req[p].outcome \in {"FailedUpstream", "FailedInternal"})
            => ~req[p].wrote

\* C3: the attendance record is written only by a request that holds the lock
\* and whose submission has returned success.
C3_WriteAfterSubmitUnderLock ==
    [][attendances' # attendances
          => \E p \in Reqs : lock = p /\ req[p].submit_success]_vars

\* the stored window, None when the guild has none
StoredWindow ==
    IF IsNone(guilds) \/ IsNone(Val(guilds).day) THEN None ELSE guilds

\* the seconds since local midnight and the local weekday at offset off
LocalSecondOfDay(t, off) == (t + off * SecondsPerHour) % SecondsPerDay
LocalWeekday(t, off) == (((t + off * SecondsPerHour) \div SecondsPerDay) % 7) + 1
LocalDate(t, off) == (t + off * SecondsPerHour) \div SecondsPerDay

\* local weekday = window weekday and start <= local time of day <= end
InsideWindow(w, t, off) ==
    /\ LocalWeekday(t, off) = Val(w.day)
    /\ Val(w.start_hour) * SecondsPerHour + Val(w.start_minute) * 60
           <= LocalSecondOfDay(t, off)
    /\ LocalSecondOfDay(t, off)
           <= Val(w.end_hour) * SecondsPerHour + Val(w.end_minute) * 60

\* C4: with a window configured, the request passes the time gate iff the
\* local weekday is the window's and start <= local time of day <= end, both
\* bounds inclusive; otherwise it is denied as outside the window.
C4_WindowGate ==
    [][\A p \in Reqs :
          (req[p].pc = "win" /\ req'[p].pc # "win" /\ ~IsNone(StoredWindow)
              /\ ~IsNone(timezones) /\ req[p].tz = timezones)
          => IF InsideWindow(Val(StoredWindow), now, Val(timezones))
             THEN req'[p].pc = "chk"
             ELSE req'[p].pc = "done" /\ req'[p].outcome = "DeniedOutsideWindow"]_vars

\* a request has passed the gate at the very last second of the window
C4_Witness ==
    \E p \in Reqs :
        /\ req[p].pc = "chk" /\ req[p].gate = "inside"
        /\ ~IsNone(StoredWindow) /\ ~IsNone(timezones)
        /\ LocalSecondOfDay(now, Val(timezones))
              = Val(Val(StoredWindow).end_hour) * SecondsPerHour
                + Val(Val(StoredWindow).end_minute) * 60

\* C5: with no window configured (never set, or deleted) no request is denied
\* as outside the window, whatever the instant and the offset.
C5_NoWindowNeverDenied ==
    [][\A p \in Reqs :
          (req[p].pc = "win" /\ IsNone(StoredWindow))
              => req'[p].outcome # "DeniedOutsideWindow"]_vars

\* a request has passed the gate of a guild that has a row but no window
C5_Witness ==
    \E p \in Reqs :
        /\ req[p].pc = "chk" /\ req[p].gate = "unset"
        /\ ~IsNone(guilds) /\ IsNone(Val(guilds).day)

\* C6: every request that returns has one of the fixed outcome categories; no
\* exception leaves the handler.
C6_EveryRequestReturnsOutcome ==
    \A p \in Reqs : req[p].pc = "done" => req[p].outcome \in Categories

\* outbound HTTP calls in flight, over both flows
InFlight ==
    Cardinality({p \in Reqs : req[p].pc \in {"fetching", "posting"}})
        + (IF cfg.pc \in {"resolving", "fetching"} THEN 1 ELSE 0)

\* C7: the outbound HTTP calls in flight, counted over the whole process,
\* never exceed the gate capacity.
C7_GateBoundsInFlight == InFlight <= max_conc

\* C8: submit_response returns success exactly for status 200 or 302; every
\* other status and every transport error is a failure returned as a value
\* (the request ends recorded or failed upstream, never by an exception).
C8_SubmitResult ==
    \A p \in Reqs :
        (req[p].pc = "done" /\ ~IsNone(req[p].resp))
        => LET r == Val(req[p].resp)
           IN  /\ req[p].submit_success <=> (r.kind = "status" /\ r.code \in {200, 302})
               /\ req[p].outcome =
                      IF r.kind = "status" /\ r.code \in {200, 302}
                      THEN "Recorded" ELSE "FailedUpstream"

\* a POST that timed out was answered as a failed submission
C8_Witness ==
    \E p \in Reqs :
        /\ req[p].pc = "done"
        /\ req[p].resp = Some(NetError("ReadTimeout"))
        /\ req[p].outcome = "FailedUpstream"

\* C9: the stored form endpoint and field identifier are both present or
\* both absent, and a set-form-link that reports failure has persisted
\* nothing.
C9_FailedSetPersistsNothing ==
    /\ ~IsNone(guilds)
          => (IsNone(Val(guilds).form_url) <=> IsNone(Val(guilds).entry_id_name))
    /\ (cfg.pc = "done" /\ cfg.msg # "Saved") => ~cfg.persisted

\* C10: when the read of the user's record succeeds and finds a record of the
\* request's form, the duplicate check answers already marked exactly when
\* the record's date equals the date of the request in the guild's offset.
C10_DuplicateCheckUsesLocalDate ==
    [][\A p \in Reqs :
          (/\ req[p].pc = "chk" /\ req'[p].pc # "chk" /\ faults' = faults
           /\ ~IsNone(timezones)
           /\ ~IsNone(attendances[req[p].user])
           /\ Some(Val(attendances[req[p].user]).form_url) = req[p].form_url)
          => ((req'[p].pc = "done" /\ req'[p].outcome = "DeniedAlreadyMarked")
                <=> LocalDate(Val(attendances[req[p].user]).timestamp, Val(timezones))
                      = LocalDate(now, Val(timezones)))]_vars

\* C11: a mark-attendance request performs no URL resolution and no view-page
\* fetch: no request is ever inside the GET of the form's view page.
C11_RequestFetchesNoViewPage ==
    \A p \in Reqs : req[p].pc # "fetching"

\* the positions of a request inside "async with self._lock"
Critical == {"fetch", "fetching", "post", "posting"}
\* the positions before it: configuration reads, window gate, duplicate check
BeforeLock == {"tz", "win", "chk", "chkw", "lock"}
Denied == {"DeniedNotConfigured", "DeniedOutsideWindow", "DeniedAlreadyMarked"}

\* C12: the lock is held by exactly the request that is in the critical
\* section, so by at most one; a request holds it at no earlier position,
\* never goes back from the critical section to an earlier position, and a
\* request that is denied returns from a position before the lock.
C12_LockDiscipline ==
    [][\A p \in Reqs :
          /\ (lock = p) <=> (req[p].pc \in Critical)
          /\ (lock' = p) <=> (req'[p].pc \in Critical)
          /\ req[p].pc \in Critical => req'[p].pc \in Critical \cup {"done"}
          /\ (req[p].pc # "done" /\ req'[p].pc = "done"
                 /\ req'[p].outcome \in Denied)
              => (req[p].pc \in BeforeLock /\ lock # p /\ lock' = lock)]_vars

\* one request is inside its POST holding the lock while another, past its
\* duplicate check, waits for the lock
C12_Witness ==
    \E p, q \in Reqs :
        /\ p # q /\ lock = p /\ req[p].pc = "posting" /\ req[q].pc = "lock"

\* the children of a node, in iteration order
Children(n) == IF n.t \in {"list", "dict"} THEN n.v ELSE << >>
\* a field: a list of exactly three elements whose second is null
IsField(n) == n.t = "list" /\ Len(n.v) = 3 /\ n.v[2] = JNull

\* the positions of the nodes of a tree, as sequences of child indices
RECURSIVE Positions(_)
Positions(n) ==
    {<< >>} \cup UNION {{<< i >> \o q : q \in Positions(Children(n)[i])} :
                           i \in 1..Len(Children(n))}
RECURSIVE NodeAt(_, _)
NodeAt(n, pos) ==
    IF pos = << >> THEN n ELSE NodeAt(Children(n)[Head(pos)], Tail(pos))

\* the positions of the fields that lie inside no other field
FieldPositions(n) ==
    {pos \in Positions(n) :
        /\ IsField(NodeAt(n, pos))
        /\ \A k \in 0..(Len(pos) - 1) : ~IsField(NodeAt(n, SubSeq(pos, 1, k)))}
\* depth-first order of two positions neither of which is above the other
Before(a, b) ==
    \E k \in 1..Len(a) :
        /\ k <= Len(b) /\ a[k] < b[k]
        /\ \A j \in 1..(k - 1) : a[j] = b[j]
\* the first elements of those fields, in depth-first order
FieldsInOrder(n) ==
    LET F == FieldPositions(n)
        at(i) == CHOOSE pos \in F : Cardinality({q \in F : Before(q, pos)}) = i - 1
    IN  [i \in 1..Cardinality(F) |-> NodeAt(n, at(i)).v[1]]

\* C13: get_entry_ids yields the first element of every three-element list
\* whose second element is null, in first-encountered depth-first order,
\* without descending into such a list, and nothing when there is none; the
\* request submits into the first identifier yielded.
C13_EntryIdsInOrder ==
    ~IsNone(extraction.entry_ids)
        => /\ Val(extraction.entry_ids) = FieldsInOrder(extraction.form_data)
           /\ IF FieldPositions(extraction.form_data) = {}
              THEN extraction.raised /\ IsNone(extraction.field)
              ELSE /\ ~extraction.raised
                   /\ extraction.field
                         = Some(FieldsInOrder(extraction.form_data)[1])

\* the extraction has run on a map whose values hold fields at two depths
C13_Witness ==
    /\ extraction.form_data = JDict(<< JDict(<< Leaf(33) >>), JNum(5), Leaf(11) >>)
    /\ extraction.entry_ids = Some(<< JNum(33), JNum(11) >>)
    /\ extraction.field = Some(JNum(33))

\* C14: a set-form-link whose page parses but holds no field ends with a
\* failure reported to the administrator: the command never ends by an
\* exception.
C14_NoFieldsFoundReported ==
    cfg.pc = "done" => cfg.msg # "Raised"

\* extract_url has returned a failure to add_gform_url
ExtractFailed == cfg.pc = "done" /\ ~IsNone(cfg.url)

\* the kind of failure that belongs to the argument and the answer of the GET
FailureKind(u, resp) ==
    IF u.prefix = "gle" /\ Val(resp).kind = "error" THEN "Unexpected"
    ELSE IF u.prefix = "gle" /\ Val(resp).code = 404 THEN "NotFound"
    ELSE IF u.prefix = "gle" /\ Val(resp).code # 200 THEN "Private"
    ELSE "MalformedUrl"

\* C15: extract_url answers a 404 as not found, any other status but 200 as
\* private, a connection or timeout error as its own kind (the unexpected
\* error) and a URL without a /d/e/<token> segment as malformed; a failure
\* returns no canonical base, and the GET is issued once: after its answer
\* extract_url has returned.
C15_FailureKinds ==
    [][/\ (cfg.pc = "resolving" /\ cfg' # cfg) => cfg'.pc \in {"done", "fetch"}
       /\ ExtractFailed'
            => /\ cfg'.msg = FailureKind(Val(cfg'.url), cfg'.resp)
               /\ IsNone(cfg'.extracted)
               /\ (Val(cfg'.url).prefix = "gle") <=> ~IsNone(cfg'.resp)
               /\ cfg'.msg = "MalformedUrl"
                    => IsNone((IF IsNone(cfg'.resp) THEN Val(cfg'.url)
                               ELSE RedirectTarget(Val(cfg'.url))).token)]_vars

\* the expansion of a short link has timed out and the command has reported
\* the unexpected error
C15_Witness ==
    /\ ExtractFailed
    /\ cfg.url = Some(ShortLink)
    /\ cfg.resp = Some(NetError("ReadTimeout"))
    /\ cfg.msg = "Unexpected"

\* the URL the token is searched in: the argument, or where it redirects to
Resolved(u) == IF u.prefix = "gle" THEN RedirectTarget(u) ELSE u

\* C16: extract_url of a short link and of the long URL it redirects to
\* return the same canonical base, docs.google.com/forms/d/e/<token> with
\* nothing after the token, and extract_url of a canonical base returns it.
C16_CanonicalBase ==
    (cfg.pc = "fetch" /\ ~IsNone(cfg.url))
        => LET u == Val(cfg.url)
               base == Val(cfg.extracted)
           IN  /\ ~IsNone(cfg.extracted)
               /\ base.prefix = "docs" /\ base.tail = ""
               /\ base.token = Resolved(u).token
               /\ (u.prefix = "docs" /\ u.tail = "") => base = u

\* extract_url has returned the base of the long URL the short link
\* redirects to
C16_Witness ==
    /\ cfg.pc = "fetch"
    /\ cfg.url = Some(ShortLink)
    /\ cfg.extracted = Some(Url("docs", RedirectTarget(ShortLink).token, ""))

\* the five window columns of a guilds row
WindowOf(g) ==
    IF IsNone(g) THEN << None, None, None, None, None >>
    ELSE << Val(g).day, Val(g).start_hour, Val(g).start_minute, Val(g).end_hour,
            Val(g).end_minute >>
NoWindow == << None, None, None, None, None >>

\* weekday 1..7, hours 0..23, minutes 0..59, start strictly before end
WellFormed(w) ==
    /\ \A i \in 1..5 : ~IsNone(w[i])
    /\ Val(w[1]) \in 1..7
    /\ Val(w[2]) \in 0..23 /\ Val(w[4]) \in 0..23
    /\ Val(w[3]) \in 0..59 /\ Val(w[5]) \in 0..59
    /\ Val(w[2]) * 60 + Val(w[3]) < Val(w[4]) * 60 + Val(w[5])

\* the window a schedule asks for
Asked(sc) ==
    << Some(IF sc.name = "" THEN sc.digit ELSE weekdays(sc.name)),
       Some(sc.h1), Some(sc.m1), Some(sc.h2), Some(sc.m2) >>

\* C17: every stored window has weekday 1..7, hours 0..23, minutes 0..59 and
\* start strictly before end; a command stores a window only when its input
\* is such a window, and any other input leaves the stored window unchanged.
C17_StoredWindowWellFormed ==
    [][/\ WindowOf(guilds') # NoWindow => WellFormed(WindowOf(guilds'))
       /\ (WindowOf(guilds') # WindowOf(guilds) /\ WindowOf(guilds') # NoWindow)
            => \E sc \in Schedules :
                   WellFormed(Asked(sc)) /\ WindowOf(guilds') = Asked(sc)]_vars

\* a window given by weekday name is stored in the row that holds the form link
C17_Witness ==
    /\ WindowOf(guilds) = << Some(6), Some(8), Some(0), Some(9), Some(0) >>
    /\ ~IsNone(Val(guilds).form_url)

\* C18: the five window columns of the guild are all present or all absent.
C18_WindowAllOrNothing ==
    \/ WindowOf(guilds) = NoWindow
    \/ \A i \in 1..5 : ~IsNone(WindowOf(guilds)[i])

\* a window has been written into the row that holds the form link
C18_Witness ==
    /\ ~IsNone(guilds)
    /\ ~IsNone(Val(guilds).form_url)
    /\ \A i \in 1..5 : ~IsNone(WindowOf(guilds)[i])

\* C19: the stored offset lies in -12..+14, and a command changes it only to
\* such a value: an input outside the range or not an integer leaves it
\* unchanged.
C19_OffsetInRange ==
    [][~IsNone(timezones') => (0 - 12 <= Val(timezones') /\ Val(timezones') <= 14)]_vars

\* set_timezone has stored -5
C19_Witness == timezones = Some(0 - 5)

\* C20: the record of a user is created, and on a later day updated, by a
\* successful submission: a request that has created or updated the record
\* is one whose submission has succeeded.
C20_RecordWrittenBySuccessfulSubmission ==
    \A p \in Reqs : req[p].wrote => req[p].submit_success

\* the day number of an instant, counted in UTC
DayOf(t) == t \div (24 * 60 * 60)

NotConfigured == IsNone(guilds) \/ IsNone(Val(guilds).form_url)

\* C22: a request of a guild whose form endpoint is absent reads it as
\* absent and returns the not-configured outcome, and in doing so changes
\* no attendance record, takes no lock and no gate slot: it has read no
\* record, written none and received no answer from the form service.
C22_NotConfiguredDoesNothing ==
    [][\A p \in Reqs :
          /\ (req[p].pc = "idle" /\ req'[p].pc # "idle" /\ NotConfigured)
                => (req'[p].pc = "tz" /\ IsNone(req'[p].form_url))
          /\ (req[p].pc = "tz" /\ req'[p].pc # "tz" /\ IsNone(req[p].form_url))
                => /\ req'[p].pc = "done"
                   /\ req'[p].outcome = "DeniedNotConfigured"
                   /\ ~req'[p].wrote /\ IsNone(req'[p].resp)
                   /\ attendances' = attendances /\ lock' = lock
                   /\ sem_app' = sem_app /\ sem_mgr' = sem_mgr]_vars

\* a request has returned not configured for a guild that has a row whose
\* form endpoint is absent
C22_Witness ==
    \E p \in Reqs :
        /\ req[p].pc = "done" /\ req[p].outcome = "DeniedNotConfigured"
        /\ ~IsNone(guilds) /\ IsNone(Val(guilds).form_url)

\* C23: a request of a guild that has a window but no stored offset has its
\* window evaluated at UTC+7: it passes when the instant lies in the window
\* on the UTC+7 clock and is denied as outside the window otherwise.
C23_DefaultOffsetSeven ==
    [][\A p \in Reqs :
          (/\ req[p].pc = "win" /\ req'[p].pc # "win" /\ faults' = faults
           /\ ~IsNone(StoredWindow) /\ IsNone(req[p].tz))
          => IF InsideWindow(Val(StoredWindow), now, default_offset)
             THEN req'[p].pc = "chk"
             ELSE req'[p].pc = "done" /\ req'[p].outcome = "DeniedOutsideWindow"]_vars

\* C24: a request issues at most one POST: the POST is issued from the
\* position after the view page only, and whatever it answers (success, an
\* error status, a transport error) the handler returns with that answer.
C24_SinglePost ==
    [][\A p \in Reqs :
          /\ (req[p].pc # "posting" /\ req'[p].pc = "posting")
                => (req[p].pc = "post" /\ IsNone(req[p].resp))
          /\ (req[p].pc # "post" /\ req'[p].pc = "post") => req[p].pc = "fetching"
          /\ (req[p].pc = "posting" /\ req'[p] # req[p])
                => (req'[p].pc = "done" /\ ~IsNone(req'[p].resp))]_vars

\* a POST answered with status 500 has ended the request as failed upstream
C24_Witness ==
    \E p \in Reqs :
        /\ req[p].pc = "done"
        /\ req[p].resp = Some(Status(500, None))
        /\ req[p].outcome = "FailedUpstream"

C26_AddFormKeepsOffset ==
    [][(cfg.pc = "savetz" /\ cfg'.pc = "done" /\ ~IsNone(timezones))
          => timezones' = timezones]_vars

\* the form endpoint and field identifier of a guilds row
EndpointOf(g) ==
    IF IsNone(g) THEN << None, None >> ELSE << Val(g).form_url, Val(g).entry_id_name >>

\* C27: a step that changes the window changes neither the form endpoint,
\* the offset nor an attendance record; a step that changes the form
\* endpoint changes neither the window nor an attendance record; a step
\* that changes the offset changes neither the guild's row nor an attendance
\* record.
C27_CommandsChangeTheirPartOnly ==
    [][/\ WindowOf(guilds') # WindowOf(guilds)
            => /\ EndpointOf(guilds') = EndpointOf(guilds)
               /\ timezones' = timezones /\ attendances' = attendances
       /\ EndpointOf(guilds') # EndpointOf(guilds)
            => (WindowOf(guilds') = WindowOf(guilds) /\ attendances' = attendances)
       /\ timezones' # timezones
            => (guilds' = guilds /\ attendances' = attendances)]_vars

\* the guild has a form endpoint, a window, an offset set by set_timezone
\* and an attendance record, while a set-form-link has just saved the
\* endpoint
C27_Witness ==
    /\ cfg.pc = "savetz" /\ cfg.success
    /\ WindowOf(guilds) # NoWindow
    /\ timezones = Some(0 - 5)
    /\ \E u \in Users : ~IsNone(attendances[u])

\* C28: the duplicate check identifies the record by guild and user alone:
\* a request that reads, without a storage failure, while the user has a
\* record dated today is denied as already marked, whatever form endpoint
\* the record carries.
C28_RecordFoundByGuildAndUser ==
    [][\A p \in Reqs :
          (/\ req[p].pc = "chk" /\ req'[p].pc # "chk" /\ faults' = faults
           /\ ~IsNone(attendances[req[p].user])
           /\ DayOf(Val(attendances[req[p].user]).timestamp) = DayOf(now))
          => (req'[p].pc = "done" /\ req'[p].outcome = "DeniedAlreadyMarked")]_vars

\* C29: a request whose read of the attendance record fails is not
\* admitted: it returns a failure and goes on to no write and no submission.
C29_FailedReadNotAdmitted ==
    [][\A p \in Reqs :
          (req[p].pc = "chk" /\ req'[p].pc # "chk" /\ faults' # faults)
          => (req'[p].pc = "done" /\ req'[p].outcome \notin {"Recorded", "Raised"})]_vars
====
